---- MODULE Spec2Model ----
(***************************************************************************)
(* Model of create_project.py: the scaffolder that creates a Kaggle        *)
(* project directory, its five sub-directories and four template files.    *)
(*                                                                         *)
(* Strings are sequences of one-character strings.  The filesystem below   *)
(* the current working directory is `disk`: a function from the names of   *)
(* the entries of the working directory to trees; a tree maps a path (a    *)
(* sequence of component names, <<>> being the entry itself) to an entry.  *)
(***************************************************************************)
EXTENDS Integers, Sequences, FiniteSets, TLC

VARIABLES
    pc,             \* position of main(): "idle" when no process is running
    args,           \* argparse namespace: project_name, competition
    project_name,   \* main's local after normalisation
    disk,           \* entries of the working directory (project roots)
    root_gitignore, \* the .gitignore of the working directory, or NoFile
    out,            \* lines printed on the console by the running process
    answer,         \* the line just typed at the overwrite prompt
    err,            \* the exception that ended the run, "" if none
    pre,            \* disk as it was when the process started
    runs,           \* number of invocations so far
    edits,          \* number of user edits of the filesystem so far
    faults          \* number of environment I/O faults so far

vars == <<pc, args, project_name, disk, root_gitignore, out, answer, err,
          pre, runs, edits, faults>>

----------------------------------------------------------------------------
\* Bounds of the model

MaxRuns == 2
MaxEdits == 2
MaxFaults == 1
MaxNameLen == 3
MaxUrlLen == 4

----------------------------------------------------------------------------
\* Python str methods

UpperLetters == <<"A","B","C","D","E","F","G","H","I","J","K","L","M",
                  "N","O","P","Q","R","S","T","U","V","W","X","Y","Z">>
LowerLetters == <<"a","b","c","d","e","f","g","h","i","j","k","l","m",
                  "n","o","p","q","r","s","t","u","v","w","x","y","z">>

IsUpper(c) == \E i \in 1..26 : UpperLetters[i] = c
IsLower(c) == \E i \in 1..26 : LowerLetters[i] = c
IsCased(c) == IsUpper(c) \/ IsLower(c)

LowerChar(c) ==
    IF IsUpper(c) THEN LowerLetters[CHOOSE i \in 1..26 : UpperLetters[i] = c]
    ELSE c
UpperChar(c) ==
    IF IsLower(c) THEN UpperLetters[CHOOSE i \in 1..26 : LowerLetters[i] = c]
    ELSE c

\* s.lower()
str_lower(s) == [i \in 1..Len(s) |-> LowerChar(s[i])]

\* s.replace(old, new) for one-character old and new
str_replace(s, old, new) ==
    [i \in 1..Len(s) |-> IF s[i] = old THEN new ELSE s[i]]

\* s.title(): a cased character is upper-cased when the character before it
\* is not cased (or there is none), lower-cased otherwise
str_title(s) ==
    [i \in 1..Len(s) |->
        IF IsCased(s[i])
        THEN IF i > 1 /\ IsCased(s[i-1]) THEN LowerChar(s[i])
             ELSE UpperChar(s[i])
        ELSE s[i]]

\* s.rstrip(c)
RECURSIVE str_rstrip(_, _)
str_rstrip(s, c) ==
    IF Len(s) > 0 /\ s[Len(s)] = c
    THEN str_rstrip(SubSeq(s, 1, Len(s) - 1), c)
    ELSE s

\* s.split(sep): always at least one part
RECURSIVE str_split(_, _)
str_split(s, sep) ==
    IF \E i \in 1..Len(s) : s[i] = sep
    THEN LET i == CHOOSE k \in 1..Len(s) :
                    s[k] = sep /\ \A j \in 1..(k-1) : s[j] # sep
         IN  <<SubSeq(s, 1, i - 1)>> \o str_split(SubSeq(s, i + 1, Len(s)), sep)
    ELSE <<s>>

----------------------------------------------------------------------------
\* Filesystem entries and operations (pathlib / open / shutil)

Dir == [kind |-> "dir", what |-> "", a |-> <<>>, b |-> <<>>]
File(what, a, b) == [kind |-> "file", what |-> what, a |-> a, b |-> b]
NoFile == [kind |-> "none", what |-> "", a |-> <<>>, b |-> <<>>]
EmptyFile == File("empty", <<>>, <<>>)
UserFile == File("user", <<>>, <<>>)
EmptyTree == <<>>

Exists(t, p) == p \in DOMAIN t
IsDir(t, p) == p \in DOMAIN t /\ t[p].kind = "dir"
IsFile(t, p) == p \in DOMAIN t /\ t[p].kind = "file"
Parent(p) == SubSeq(p, 1, Len(p) - 1)

\* list(d.glob("*")): the entries directly inside d (pathlib's glob also
\* yields names that start with a dot)
Children(t, d) ==
    {p \in DOMAIN t : Len(p) = Len(d) + 1 /\ SubSeq(p, 1, Len(d)) = d}

Ok(t) == [tree |-> t, ok |-> TRUE, err |-> ""]
Fail(t, e) == [tree |-> t, ok |-> FALSE, err |-> e]

\* The parent of <<>> is the working directory, which always exists.
ParentIsDir(t, p) == Len(p) = 0 \/ IsDir(t, Parent(p))
ParentExists(t, p) == Len(p) = 0 \/ Exists(t, Parent(p))

\* exist_ok is not honoured
RECURSIVE Mkdir_exist_not_ok(_, _, _, _)
Mkdir_exist_not_ok(t, p, parents, exist_ok) ==
    IF Exists(t, p) THEN Fail(t, "FileExistsError")
    ELSE IF ParentIsDir(t, p) THEN Ok((p :> Dir) @@ t)
    ELSE IF ParentExists(t, p) THEN Fail(t, "NotADirectoryError")
    ELSE IF ~parents THEN Fail(t, "FileNotFoundError")
    ELSE LET r == Mkdir_exist_not_ok(t, Parent(p), TRUE, TRUE)
         IN  IF r.ok THEN Ok((p :> Dir) @@ r.tree) ELSE r

\* Path.mkdir(parents, exist_ok)
RECURSIVE Mkdir(_, _, _, _)
Mkdir(t, p, parents, exist_ok) ==
    IF Exists(t, p)
    THEN IF exist_ok /\ IsDir(t, p) THEN Ok(t) ELSE Fail(t, "FileExistsError")
    ELSE IF ParentIsDir(t, p) THEN Ok((p :> Dir) @@ t)
    ELSE IF ParentExists(t, p) THEN Fail(t, "NotADirectoryError")
    ELSE IF ~parents THEN Fail(t, "FileNotFoundError")
    ELSE LET r == Mkdir(t, Parent(p), TRUE, TRUE)
         IN  IF r.ok THEN Ok((p :> Dir) @@ r.tree) ELSE r

\* Path.touch(): creates an empty file, leaves an existing one as it is
Touch(t, p) ==
    IF Exists(t, p) THEN Ok(t)
    ELSE IF ParentIsDir(t, p) THEN Ok((p :> EmptyFile) @@ t)
    ELSE Fail(t, "FileNotFoundError")

\* with open(p, "w") as f: f.write(content)
\* fault "open": the open fails; fault "write": the file has been created
\* or truncated and the write fails
WriteFile(t, p, content, fault) ==
    IF IsDir(t, p) THEN Fail(t, "IsADirectoryError")
    ELSE IF ~ParentIsDir(t, p) THEN Fail(t, "FileNotFoundError")
    ELSE IF fault = "open" THEN Fail(t, "OSError")
    ELSE IF fault = "write" THEN Fail((p :> EmptyFile) @@ t, "OSError")
    ELSE Ok((p :> content) @@ t)

Tree(d, name) == IF name \in DOMAIN d THEN d[name] ELSE EmptyTree
SetTree(d, name, t) == (name :> t) @@ d

----------------------------------------------------------------------------
\* Functions of create_project.py

\* the list `directories` of create_directory_structure
directories == << <<"data", "raw">>, <<"data", "processed">>,
                  <<"data", "submissions">>, <<"notebooks">>, <<"src">> >>

Marker(d) == Append(d, ".gitkeep")
README_PATH == <<"README.md">>
GITIGNORE_PATH == <<".gitignore">>
ENV_PATH == <<".env.example">>
NOTEBOOK_PATH == <<"notebooks", "exploration.ipynb">>

\* first loop of create_directory_structure; failAt = i makes the i-th
\* mkdir fail for an environmental reason
RECURSIVE MkdirLoop(_, _, _)
MkdirLoop(t, i, failAt) ==
    IF i > Len(directories) THEN Ok(t)
    ELSE IF failAt = i THEN Fail(t, "OSError")
    ELSE LET r == Mkdir(t, directories[i], TRUE, TRUE)
         IN  IF r.ok THEN MkdirLoop(r.tree, i + 1, failAt) ELSE r

\* no marker is ever written
MarkerLoop_never(t, i, failAt) == Ok(t)

\* a marker is written into every directory, empty or not
MarkerLoop_always(t, i, failAt) ==
    LET d == {directories[k] : k \in 1..Len(directories)}
    IN  Ok([p \in DOMAIN t \cup {Marker(x) : x \in d} |->
               IF p \in DOMAIN t THEN t[p] ELSE EmptyFile])

\* second loop; failAt = Len(directories) + i makes the i-th touch fail
RECURSIVE MarkerLoop(_, _, _)
MarkerLoop(t, i, failAt) ==
    IF i > Len(directories) THEN Ok(t)
    ELSE IF Children(t, directories[i]) = {}
    THEN IF failAt = Len(directories) + i THEN Fail(t, "OSError")
         ELSE LET r == Touch(t, Marker(directories[i]))
              IN  IF r.ok THEN MarkerLoop(r.tree, i + 1, failAt) ELSE r
    ELSE MarkerLoop(t, i + 1, failAt)

create_directory_structure(t, failAt) ==
    LET r == MkdirLoop(t, 1, failAt)
    IN  IF r.ok THEN MarkerLoop(r.tree, 1, failAt) ELSE r

TITLE_SUFFIX == <<" ", "-", " ", "K", "a", "g", "g", "l", "e", " ",
                  "C", "o", "m", "p", "e", "t", "i", "t", "i", "o", "n">>

\* first line of readme_content, without the leading "# "
readme_title(name) == str_title(name) \o TITLE_SUFFIX

\* the file holds its title line (a) and the URL of its two links (b)
readme_content(name, competition_url) ==
    File("readme", readme_title(name), competition_url)

create_readme(t, name, competition_url, fault) ==
    WriteFile(t, README_PATH, readme_content(name, competition_url), fault)

gitignore_content == File("gitignore_fallback", <<>>, <<>>)

\* the project's own .gitignore is kept when there is one
create_gitignore_of_project(t, cwd_gitignore, fault) ==
    IF IsFile(t, GITIGNORE_PATH)
    THEN WriteFile(t, GITIGNORE_PATH, t[GITIGNORE_PATH], fault)
    ELSE WriteFile(t, GITIGNORE_PATH, gitignore_content, fault)

\* shutil.copy of the working directory's .gitignore when there is one,
\* the fixed list otherwise
create_gitignore(t, cwd_gitignore, fault) ==
    IF cwd_gitignore.kind # "none"
    THEN WriteFile(t, GITIGNORE_PATH, cwd_gitignore, fault)
    ELSE WriteFile(t, GITIGNORE_PATH, gitignore_content, fault)

\* the trailing slashes are not stripped
competition_name_no_rstrip(competition_url) ==
    IF competition_url # <<>>
    THEN LET parts == str_split(competition_url, "/")
         IN  parts[Len(parts)]
    ELSE <<>>

competition_name(competition_url) ==
    IF competition_url # <<>>
    THEN LET parts == str_split(str_rstrip(competition_url, "/"), "/")
         IN  parts[Len(parts)]
    ELSE <<>>

\* the file holds the value of its COMPETITION_NAME line (a)
env_content(competition_url) ==
    File("env", competition_name(competition_url), <<>>)

create_env_example(t, competition_url, fault) ==
    WriteFile(t, ENV_PATH, env_content(competition_url), fault)

notebook_content == File("notebook", <<>>, <<>>)

create_notebook(t, fault) ==
    WriteFile(t, NOTEBOOK_PATH, notebook_content, fault)

\* the name lowercased, its spaces kept
normalize_keeps_spaces(name) == str_lower(name)

\* main: args.project_name.lower().replace(" ", "_")
normalize(name) == str_replace(str_lower(name), " ", "_")

\* only an explicit n declines
Declined_only_n(typed) == str_lower(typed) = <<"n">>

\* main: input(...).lower() != 'y'
Declined(typed) == str_lower(typed) # <<"y">>

\* main: the order of the steps
Steps == <<"confirm", "mkroot", "structure", "readme", "gitignore",
           "env", "notebook", "success", "done">>
\* the notebook is written before the structure is built
NextStep_notebook_first(s) ==
    LET order == <<"confirm", "mkroot", "notebook", "structure", "readme",
                   "gitignore", "env", "success", "done">>
    IN  order[(CHOOSE i \in 1..Len(order) : order[i] = s) + 1]

NextStep(s) == Steps[(CHOOSE i \in 1..Len(Steps) : Steps[i] = s) + 1]

Msg(m) == [msg |-> m, name |-> project_name]

----------------------------------------------------------------------------
\* Inputs

HOUSE_PRICES == <<"H","o","u","s","e"," ","P","r","i","c","e","s">>
HOUSE_PRICES_DIR == <<"h","o","u","s","e","_","p","r","i","c","e","s">>
TITANIC == <<"t","i","t","a","n","i","c">>
TITANIC_URL ==
    <<"h","t","t","p","s",":","/","/","w","w","w",".",
      "k","a","g","g","l","e",".","c","o","m","/",
      "c","o","m","p","e","t","i","t","i","o","n","s","/",
      "t","i","t","a","n","i","c">>

\* command lines of the runs that follow one another on one project
ProjectNames == {HOUSE_PRICES, HOUSE_PRICES_DIR}
CompetitionUrls == {<<>>, TITANIC_URL}
CommandLines == [project_name : ProjectNames, competition : CompetitionUrls]

\* what the user may type at the prompt
Answers == {<<"y">>, <<"Y">>, <<"n">>, <<>>, <<"y", "e", "s">>}

SeqsUpTo(S, n) == UNION {[1..k -> S] : k \in 0..n}
NameAlphabet == {"H", "p", " ", "_"}
UrlAlphabet == {"k", "t", "/"}
AllNames == SeqsUpTo(NameAlphabet, MaxNameLen) \ {<<>>}
AllUrls == SeqsUpTo(UrlAlphabet, MaxUrlLen)

\* command lines of a single run: any name, or any URL
AllCommandLines ==
    [project_name : AllNames, competition : {<<>>}]
        \cup [project_name : {TITANIC}, competition : AllUrls]

\* files a user puts into a project between two runs, and names a user
\* gives to entries of the working directory
UserPaths == {<<"data", "raw", "train.csv">>, <<"src", "model.py">>, <<"data">>}
UserRootNames == {HOUSE_PRICES_DIR}
PreRootNames == {<<"h", "_", "p">>, <<"h">>}
USER_GITIGNORE == File("user", <<"*", ".", "l", "o", "g">>, <<>>)

----------------------------------------------------------------------------
\* The environment's I/O faults (permission denied, disk full)

FileFaults == IF faults < MaxFaults THEN {"none", "open", "write"} ELSE {"none"}
LoopFaults == IF faults < MaxFaults THEN 0..(2 * Len(directories)) ELSE {0}
MkdirFaults == IF faults < MaxFaults THEN {"none", "mkdir"} ELSE {"none"}

PutTree(d, name, t) ==
    IF DOMAIN t = {} THEN [n \in DOMAIN d \ {name} |-> d[n]]
    ELSE SetTree(d, name, t)

\* a failed step removes the project directory before the process dies
Finish_rollback(step, r) ==
    /\ disk' = IF r.ok THEN PutTree(disk, project_name, r.tree)
               ELSE PutTree(disk, project_name, EmptyTree)
    /\ pc' = IF r.ok THEN NextStep(step) ELSE "failed"
    /\ err' = r.err
    /\ faults' = IF r.err = "OSError" THEN faults + 1 ELSE faults

\* the process goes on to the step after `step`, or dies of the exception
Finish(step, r) ==
    /\ disk' = PutTree(disk, project_name, r.tree)
    /\ pc' = IF r.ok THEN NextStep(step) ELSE "failed"
    /\ err' = r.err
    /\ faults' = IF r.err = "OSError" THEN faults + 1 ELSE faults

----------------------------------------------------------------------------
\* main()

Init ==
    /\ pc = "idle"
    /\ args = [project_name |-> <<>>, competition |-> <<>>]
    /\ project_name = <<>>
    /\ disk = <<>>
    /\ root_gitignore \in {NoFile, USER_GITIGNORE}
    /\ out = <<>>
    /\ answer = <<>>
    /\ err = ""
    /\ pre = <<>>
    /\ runs = 0
    /\ edits = 0
    /\ faults = 0

\* parse_args and the normalisation of the name
ResolveTarget(cmdlines) ==
    /\ pc = "idle"
    /\ runs < MaxRuns
    /\ \E a \in cmdlines :
          /\ args' = a
          /\ project_name' = normalize(a.project_name)
    /\ pc' = "confirm"
    /\ pre' = disk
    /\ runs' = runs + 1
    /\ UNCHANGED <<disk, root_gitignore, out, answer, err, edits, faults>>

\* if project_dir.exists(): prompt, and return unless the answer is y
ConfirmOverwrite ==
    /\ pc = "confirm"
    /\ IF project_name \in DOMAIN disk
       THEN \E a \in Answers :
               /\ answer' = a
               /\ IF Declined(a)
                  THEN /\ out' = out \o <<Msg("already exists"), Msg("Aborting")>>
                       /\ pc' = "aborted"
                  ELSE /\ out' = Append(out, Msg("already exists"))
                       /\ pc' = NextStep("confirm")
       ELSE /\ pc' = NextStep("confirm")
            /\ UNCHANGED <<out, answer>>
    /\ UNCHANGED <<args, project_name, disk, root_gitignore, err, pre, runs,
                   edits, faults>>

\* project_dir.mkdir(exist_ok=True)
MkRoot ==
    /\ pc = "mkroot"
    /\ \E f \in MkdirFaults :
          Finish("mkroot",
                 IF f = "mkdir" /\ project_name \notin DOMAIN disk
                 THEN Fail(EmptyTree, "OSError")
                 ELSE Mkdir(Tree(disk, project_name), <<>>, FALSE, TRUE))
    /\ answer' = <<>>
    /\ UNCHANGED <<args, project_name, root_gitignore, out, pre, runs, edits>>

CreateStructure ==
    /\ pc = "structure"
    /\ out' = Append(out, Msg("Creating project structure"))
    /\ \E f \in LoopFaults :
          Finish("structure",
                 create_directory_structure(Tree(disk, project_name), f))
    /\ UNCHANGED <<args, project_name, root_gitignore, answer, pre, runs, edits>>

CreateReadme ==
    /\ pc = "readme"
    /\ out' = Append(out, Msg("Creating README.md"))
    /\ \E f \in FileFaults :
          Finish("readme",
                 create_readme(Tree(disk, project_name), project_name,
                               args.competition, f))
    /\ UNCHANGED <<args, project_name, root_gitignore, answer, pre, runs, edits>>

CreateGitignore ==
    /\ pc = "gitignore"
    /\ out' = Append(out, Msg("Creating .gitignore"))
    /\ \E f \in FileFaults :
          Finish("gitignore",
                 create_gitignore(Tree(disk, project_name), root_gitignore, f))
    /\ UNCHANGED <<args, project_name, root_gitignore, answer, pre, runs, edits>>

CreateEnvExample ==
    /\ pc = "env"
    /\ out' = Append(out, Msg("Creating .env.example"))
    /\ \E f \in FileFaults :
          Finish("env",
                 create_env_example(Tree(disk, project_name),
                                    args.competition, f))
    /\ UNCHANGED <<args, project_name, root_gitignore, answer, pre, runs, edits>>

CreateNotebook ==
    /\ pc = "notebook"
    /\ out' = Append(out, Msg("Creating starter notebook"))
    /\ \E f \in FileFaults :
          Finish("notebook", create_notebook(Tree(disk, project_name), f))
    /\ UNCHANGED <<args, project_name, root_gitignore, answer, pre, runs, edits>>

PrintSuccess ==
    /\ pc = "success"
    /\ out' = out \o <<Msg("created successfully"), Msg("cd")>>
    /\ pc' = NextStep("success")
    /\ UNCHANGED <<args, project_name, disk, root_gitignore, answer, err, pre,
                   runs, edits, faults>>

\* the process ends: after the last line, the return, or the exception
Exit ==
    /\ pc \in {"done", "aborted", "failed"}
    /\ pc' = "idle"
    /\ args' = [project_name |-> <<>>, competition |-> <<>>]
    /\ project_name' = <<>>
    /\ out' = <<>>
    /\ answer' = <<>>
    /\ err' = ""
    /\ pre' = <<>>
    /\ UNCHANGED <<disk, root_gitignore, runs, edits, faults>>

----------------------------------------------------------------------------
\* The user, between two runs

UserMakesRoot ==
    /\ pc = "idle"
    /\ edits < MaxEdits
    /\ \E n \in UserRootNames \ DOMAIN disk, e \in {Dir, UserFile} :
          disk' = SetTree(disk, n, (<<>> :> e))
    /\ edits' = edits + 1
    /\ UNCHANGED <<pc, args, project_name, root_gitignore, out, answer, err,
                   pre, runs, faults>>

UserAddsFile ==
    /\ pc = "idle"
    /\ edits < MaxEdits
    /\ \E n \in DOMAIN disk, p \in UserPaths :
          /\ ~Exists(disk[n], p)
          /\ IsDir(disk[n], Parent(p))
          /\ disk' = SetTree(disk, n, (p :> UserFile) @@ disk[n])
    /\ edits' = edits + 1
    /\ UNCHANGED <<pc, args, project_name, root_gitignore, out, answer, err,
                   pre, runs, faults>>

UserRemovesMarker ==
    /\ pc = "idle"
    /\ edits < MaxEdits
    /\ \E n \in DOMAIN disk, i \in 1..Len(directories) :
          /\ IsFile(disk[n], Marker(directories[i]))
          /\ disk' = SetTree(disk, n,
                 [p \in DOMAIN disk[n] \ {Marker(directories[i])} |-> disk[n][p]])
    /\ edits' = edits + 1
    /\ UNCHANGED <<pc, args, project_name, root_gitignore, out, answer, err,
                   pre, runs, faults>>

UserChangesGitignore ==
    /\ pc = "idle"
    /\ edits < MaxEdits
    /\ root_gitignore' = IF root_gitignore = NoFile THEN USER_GITIGNORE ELSE NoFile
    /\ edits' = edits + 1
    /\ UNCHANGED <<pc, args, project_name, disk, out, answer, err, pre, runs,
                   faults>>

Next ==
    \/ ResolveTarget(CommandLines)
    \/ ConfirmOverwrite
    \/ MkRoot
    \/ CreateStructure
    \/ CreateReadme
    \/ CreateGitignore
    \/ CreateEnvExample
    \/ CreateNotebook
    \/ PrintSuccess
    \/ Exit
    \/ UserMakesRoot
    \/ UserAddsFile
    \/ UserRemovesMarker
    \/ UserChangesGitignore

Spec == Init /\ [][Next]_vars

\* One run on any command line, without I/O faults, in a working directory
\* that is empty or holds one entry made by the user.
InitInputs ==
    /\ pc = "idle"
    /\ args = [project_name |-> <<>>, competition |-> <<>>]
    /\ project_name = <<>>
    /\ disk \in {<<>>} \cup {SetTree(<<>>, n, (<<>> :> e)) :
                                n \in PreRootNames, e \in {Dir, UserFile}}
    /\ root_gitignore \in {NoFile, USER_GITIGNORE}
    /\ out = <<>>
    /\ answer = <<>>
    /\ err = ""
    /\ pre = <<>>
    /\ runs = MaxRuns - 1
    /\ edits = MaxEdits
    /\ faults = MaxFaults

NextInputs ==
    \/ ResolveTarget(AllCommandLines)
    \/ ConfirmOverwrite
    \/ MkRoot
    \/ CreateStructure
    \/ CreateReadme
    \/ CreateGitignore
    \/ CreateEnvExample
    \/ CreateNotebook
    \/ PrintSuccess
    \/ Exit

SpecInputs == InitInputs /\ [][NextInputs]_vars

----------------------------------------------------------------------------
\* Vocabulary of the properties

Running == pc # "idle"
ProjectTree == Tree(disk, project_name)
PreTree == Tree(pre, project_name)
Existed == project_name \in DOMAIN pre
Printed(m) == \E i \in 1..Len(out) : out[i].msg = m
IsPrefix(s, t) == Len(s) <= Len(t) /\ s = SubSeq(t, 1, Len(s))
PastMkRoot ==
    pc \in {"structure", "readme", "gitignore", "env", "notebook", "success",
            "done"}
TemplatePaths == {README_PATH, GITIGNORE_PATH, ENV_PATH, NOTEBOOK_PATH}
\* the file at p was written by the emitter of `what`
Written(t, p, what) == IsFile(t, p) /\ t[p].what \in what
FiveDirectoriesExist(t) ==
    \A i \in 1..Len(directories) : IsDir(t, directories[i])

\* N in lowercase with every space replaced by an underscore
LowercasedUnderscored(N) ==
    [i \in 1..Len(N) |-> IF N[i] = " " THEN "_" ELSE LowerChar(N[i])]

----------------------------------------------------------------------------
\* C1: a run that gets past the creation of the root has a root directory in
\* the working directory whose name is the given name in lowercase with the
\* spaces replaced by underscores, and at no point of a run has any other
\* entry of the working directory been created.
C1_RootDirectoryName ==
    Running =>
        /\ DOMAIN disk \subseteq
               DOMAIN pre \cup {LowercasedUnderscored(args.project_name)}
        /\ DOMAIN pre \subseteq DOMAIN disk
        /\ PastMkRoot =>
               IsDir(Tree(disk, LowercasedUnderscored(args.project_name)), <<>>)

C1_Witness ==
    /\ pc = "done"
    /\ args.project_name = <<"H", " ", "p">>
    /\ <<"h", "_", "p">> \in DOMAIN disk \ DOMAIN pre

----------------------------------------------------------------------------
\* C2 (as stated): when the target existed and the user typed anything other
\* than y, the run has aborted: the filesystem is as the run found it, only
\* the two messages of the abort have been printed.
C2_AnythingButYAborts ==
    (pc \in {"mkroot", "aborted"} /\ Existed /\ answer # <<"y">>) =>
        /\ pc = "aborted"
        /\ disk = pre
        /\ out = <<Msg("already exists"), Msg("Aborting")>>

\* C2 (amended): the same, for anything other than y or Y.
C2_AnythingButYOrUpperYAborts ==
    (pc \in {"mkroot", "aborted"} /\ Existed /\ answer \notin {<<"y">>, <<"Y">>}) =>
        /\ pc = "aborted"
        /\ disk = pre
        /\ out = <<Msg("already exists"), Msg("Aborting")>>

C2_Witness ==
    /\ pc = "aborted"
    /\ answer = <<"y", "e", "s">>
    /\ IsFile(PreTree, README_PATH)
    /\ disk = pre

----------------------------------------------------------------------------
\* C3: when a run has completed, the five directories exist under the root,
\* and each of them that holds nothing besides a marker holds exactly the
\* marker file.
C3_FiveDirectoriesMarked ==
    pc = "done" =>
        \A i \in 1..Len(directories) :
            LET d == directories[i]
            IN  /\ IsDir(ProjectTree, d)
                /\ Children(ProjectTree, d) \ {Marker(d)} = {} =>
                       /\ Children(ProjectTree, d) = {Marker(d)}
                       /\ IsFile(ProjectTree, Marker(d))

C3_Witness ==
    /\ pc = "done"
    /\ ~Existed
    /\ Children(ProjectTree, <<"data", "raw">>) = {<<"data", "raw", ".gitkeep">>}
    /\ Children(ProjectTree, <<"notebooks">>) =
           {<<"notebooks", ".gitkeep">>, NOTEBOOK_PATH}

----------------------------------------------------------------------------
\* C4: once the README is written, its title line is the title-cased project
\* name given on the command line (its words still separated by spaces)
\* followed by " - Kaggle Competition".
C4_TitleIsTitleCasedName ==
    pc \in {"gitignore", "env", "notebook", "success", "done"} =>
        /\ Written(ProjectTree, README_PATH, {"readme"})
        /\ ProjectTree[README_PATH].a = str_title(args.project_name) \o TITLE_SUFFIX

----------------------------------------------------------------------------
\* the last non-empty segment of U between slashes, <<>> if there is none
LastNonEmptySegment(U) ==
    LET nonslash == {i \in 1..Len(U) : U[i] # "/"}
    IN  IF nonslash = {} THEN <<>>
        ELSE LET last == CHOOSE i \in nonslash : \A j \in nonslash : j <= i
                 first == CHOOSE i \in 1..last :
                              /\ \A j \in i..last : U[j] # "/"
                              /\ i = 1 \/ U[i-1] = "/"
             IN  SubSeq(U, first, last)

\* C5: once .env.example is written, its COMPETITION_NAME value is the last
\* non-empty '/'-separated segment of the competition URL, and is empty when
\* the URL is empty.
C5_CompetitionNameIsLastSegment ==
    pc \in {"notebook", "success", "done"} =>
        /\ Written(ProjectTree, ENV_PATH, {"env"})
        /\ ProjectTree[ENV_PATH].a = LastNonEmptySegment(args.competition)
        /\ args.competition = <<>> => ProjectTree[ENV_PATH].a = <<>>

C5_Witness ==
    /\ pc = "done"
    /\ args.competition = <<"k", "/", "t", "/">>
    /\ IsFile(ProjectTree, ENV_PATH)
    /\ ProjectTree[ENV_PATH].a = <<"t">>

----------------------------------------------------------------------------
\* the run started on a project that a completed run left behind
Rerun ==
    /\ Running
    /\ IsDir(PreTree, <<>>)
    /\ FiveDirectoriesExist(PreTree)

\* C6: a run over the project directory of an earlier run, the overwrite
\* accepted, does not fail unless the environment makes an I/O operation
\* fail, and when it has completed the five directories are present.
C6_RerunSucceeds ==
    (Rerun /\ err # "OSError") =>
        /\ pc # "failed"
        /\ pc = "done" => FiveDirectoriesExist(ProjectTree)

C6_Witness ==
    /\ pc = "done"
    /\ Rerun
    /\ Printed("already exists")
    /\ IsFile(PreTree, NOTEBOOK_PATH)

----------------------------------------------------------------------------
\* every entry of d is an entry of e, unchanged or else truncated by the
\* write that failed
LeftInPlace(d, e) ==
    \A n \in DOMAIN d :
        /\ n \in DOMAIN e
        /\ \A p \in DOMAIN d[n] :
               /\ p \in DOMAIN e[n]
               /\ e[n][p] = d[n][p] \/ (p \in TemplatePaths /\ e[n][p] = EmptyFile)

\* C7: the step at which an error occurs leaves in place everything written
\* before it and the success message unprinted, each message having been
\* printed at most once; after it the process only ends: no step runs, the
\* filesystem stays as it is.
C7_FirstFailureHalts ==
    [][/\ (pc # "failed" /\ pc' = "failed") =>
             /\ LeftInPlace(disk, disk')
             /\ ~\E i \in 1..Len(out') : out'[i].msg = "created successfully"
             /\ \A i, j \in 1..Len(out') : out'[i] = out'[j] => i = j
       /\ pc = "failed" => (pc' = "idle" /\ disk' = disk)]_vars

C7_Witness ==
    /\ pc = "failed"
    /\ err = "OSError"
    /\ ~Existed
    /\ IsFile(ProjectTree, README_PATH)
    /\ IsFile(ProjectTree, GITIGNORE_PATH)
    /\ Exists(ProjectTree, ENV_PATH)
    /\ ProjectTree[ENV_PATH] = EmptyFile
    /\ ~Exists(ProjectTree, NOTEBOOK_PATH)

----------------------------------------------------------------------------
\* C8: once the gitignore step has run, the project's .gitignore is the copy
\* of the working directory's .gitignore if there is one, the fixed fallback
\* list otherwise, whatever the project directory held before.
C8_GitignoreFromWorkingDirectory ==
    pc \in {"env", "notebook", "success", "done"} =>
        /\ IsFile(ProjectTree, GITIGNORE_PATH)
        /\ root_gitignore # NoFile => ProjectTree[GITIGNORE_PATH] = root_gitignore
        /\ root_gitignore = NoFile =>
               ProjectTree[GITIGNORE_PATH] = File("gitignore_fallback", <<>>, <<>>)

C8_Witness ==
    /\ pc = "done"
    /\ root_gitignore = USER_GITIGNORE
    /\ IsFile(PreTree, GITIGNORE_PATH)
    /\ PreTree[GITIGNORE_PATH].what = "gitignore_fallback"
    /\ IsFile(ProjectTree, GITIGNORE_PATH)
    /\ ProjectTree[GITIGNORE_PATH] = USER_GITIGNORE

----------------------------------------------------------------------------
\* what a complete run prints, in order
FullOutput ==
    (IF Existed THEN <<Msg("already exists")>> ELSE <<>>) \o
    <<Msg("Creating project structure"), Msg("Creating README.md"),
      Msg("Creating .gitignore"), Msg("Creating .env.example"),
      Msg("Creating starter notebook"), Msg("created successfully"), Msg("cd")>>

\* C9: the steps of a run that is not aborted happen in the fixed order: what
\* has been printed is a beginning of the full output, the prompt only when
\* the target existed, and a step has started only when the steps before it
\* have done their work: the root exists before the structure is built, the
\* five directories before the README is written, each template file before
\* the next one, the notebooks directory before the notebook, and the four
\* template files before the success summary.
C9_FixedOrder ==
    (Running /\ pc # "aborted") =>
        /\ IsPrefix(out, FullOutput)
        /\ Printed("already exists") <=> (Existed /\ pc # "confirm")
        /\ Printed("Creating project structure") => IsDir(ProjectTree, <<>>)
        /\ Printed("Creating README.md") => FiveDirectoriesExist(ProjectTree)
        /\ Printed("Creating .gitignore") =>
               Written(ProjectTree, README_PATH, {"readme"})
        /\ Printed("Creating .env.example") =>
               Written(ProjectTree, GITIGNORE_PATH, {"gitignore_fallback", "user"})
        /\ Printed("Creating starter notebook") =>
               /\ Written(ProjectTree, ENV_PATH, {"env"})
               /\ IsDir(ProjectTree, <<"notebooks">>)
        /\ Printed("created successfully") =>
               /\ Written(ProjectTree, NOTEBOOK_PATH, {"notebook"})
               /\ pc = "done"
        /\ pc = "done" => out = FullOutput

C9_Witness ==
    /\ pc = "done"
    /\ Existed
    /\ out = FullOutput

----------------------------------------------------------------------------
\* C10: during and after a run, every entry that was under the project root
\* when the run started is still there, unchanged unless it is one of the
\* four template files, and a structural directory that held entries has
\* received no marker file.
C10_NothingDeleted ==
    Running =>
        /\ \A p \in DOMAIN PreTree :
               /\ p \in DOMAIN ProjectTree
               /\ ProjectTree[p] = PreTree[p] \/ p \in TemplatePaths
        /\ \A i \in 1..Len(directories) :
               (Children(PreTree, directories[i]) # {}
                   /\ ~Exists(PreTree, Marker(directories[i])))
               => ~Exists(ProjectTree, Marker(directories[i]))

C10_Witness ==
    /\ pc = "done"
    /\ IsFile(PreTree, <<"data", "raw", "train.csv">>)
    /\ ~Exists(PreTree, <<"data", "raw", ".gitkeep">>)
    /\ ~Exists(ProjectTree, <<"data", "raw", ".gitkeep">>)
    /\ IsFile(PreTree, README_PATH)
    /\ IsFile(ProjectTree, README_PATH)
    /\ ProjectTree[README_PATH] # PreTree[README_PATH]

====
